---- MODULE Spec2Model ----
(***************************************************************************)
(* Channel resolution and reconciliation of the CzechLight ROADM           *)
(* configuration tool: Channel (src/src/channel.py) and                    *)
(* CzechLightROADMConfig (src/src/config.py).                              *)
(***************************************************************************)
EXTENDS Integers, Sequences, FiniteSets, TLC

(***************************************************************************)
(* Python float: IEEE-754 binary64 with round-to-nearest, ties-to-even.    *)
(* A float is [neg, m, e] with value (-1)^neg * m * 2^e, where m is a      *)
(* natural number kept as little-endian limbs of radix 2^15 and is odd     *)
(* (or zero, with e = 0), so equal values have equal representations.      *)
(* Exponent range limits (overflow, subnormals) are never approached by    *)
(* the frequencies handled here and are not modelled.                      *)
(***************************************************************************)
Base == 2^15

MantissaBits == 53

RECURSIVE Pow2(_)
Pow2(k) == IF k = 0 THEN 1 ELSE 2 * Pow2(k - 1)

RECURSIVE Norm(_)
Norm(a) == IF a = <<>> THEN <<>>
           ELSE IF a[Len(a)] = 0 THEN Norm(SubSeq(a, 1, Len(a) - 1))
           ELSE a

RECURSIVE BigOfNat(_)
BigOfNat(n) == IF n = 0 THEN <<>> ELSE <<n % Base>> \o BigOfNat(n \div Base)

RECURSIVE MulSmallC(_, _, _)
MulSmallC(a, c, carry) ==
    IF a = <<>> THEN BigOfNat(carry)
    ELSE LET t == a[1] * c + carry
         IN  <<t % Base>> \o MulSmallC(Tail(a), c, t \div Base)

\* a * c for 0 <= c <= Base
MulSmall(a, c) == Norm(MulSmallC(a, c, 0))

\* <<quotient limbs (most significant first), remainder>> of a \div c, scanning
\* from the most significant limb; c < Base
RECURSIVE DivSmallR(_, _, _, _)
DivSmallR(a, c, i, r) ==
    IF i = 0 THEN <<<<>>, r>>
    ELSE LET t    == r * Base + a[i]
             rest == DivSmallR(a, c, i - 1, t % c)
         IN  <<rest[1] \o <<t \div c>>, rest[2]>>

DivSmall(a, c) == LET qr == DivSmallR(a, c, Len(a), 0)
                  IN  [q |-> Norm(qr[1]), r |-> qr[2]]

RECURSIVE BitLenLimb(_)
BitLenLimb(x) == IF x = 0 THEN 0 ELSE 1 + BitLenLimb(x \div 2)

BitLen(a) == IF a = <<>> THEN 0 ELSE 15 * (Len(a) - 1) + BitLenLimb(a[Len(a)])

Zeros(n) == [i \in 1..n |-> 0]

ShiftLeft(a, k) == IF a = <<>> THEN <<>>
                   ELSE Zeros(k \div 15) \o MulSmall(a, Pow2(k % 15))

\* floor(a / 2^k)
ShiftRight(a, k) ==
    LET drop == k \div 15
    IN  IF drop >= Len(a) THEN <<>>
        ELSE DivSmall(SubSeq(a, drop + 1, Len(a)), Pow2(k % 15)).q

RECURSIVE AddC(_, _, _)
AddC(a, b, carry) ==
    IF a = <<>> /\ b = <<>> THEN BigOfNat(carry)
    ELSE LET x == IF a = <<>> THEN 0 ELSE a[1]
             y == IF b = <<>> THEN 0 ELSE b[1]
             t == x + y + carry
         IN  <<t % Base>> \o AddC(IF a = <<>> THEN <<>> ELSE Tail(a),
                                  IF b = <<>> THEN <<>> ELSE Tail(b), t \div Base)

BigAdd(a, b) == Norm(AddC(a, b, 0))

\* a - b for a >= b
RECURSIVE SubB(_, _, _)
SubB(a, b, borrow) ==
    IF a = <<>> THEN <<>>
    ELSE LET y == IF b = <<>> THEN 0 ELSE b[1]
             t == a[1] - y - borrow
         IN  <<IF t < 0 THEN t + Base ELSE t>>
             \o SubB(Tail(a), IF b = <<>> THEN <<>> ELSE Tail(b), IF t < 0 THEN 1 ELSE 0)

BigSub(a, b) == Norm(SubB(a, b, 0))

\* -1, 0, 1 as a < b, a = b, a > b (both normalised)
RECURSIVE CmpFrom(_, _, _)
CmpFrom(a, b, i) ==
    IF i = 0 THEN 0
    ELSE IF a[i] < b[i] THEN -1
    ELSE IF a[i] > b[i] THEN 1
    ELSE CmpFrom(a, b, i - 1)

BigCmp(a, b) == IF Len(a) < Len(b) THEN -1
                ELSE IF Len(a) > Len(b) THEN 1
                ELSE CmpFrom(a, b, Len(a))

IsOdd(a) == a # <<>> /\ a[1] % 2 = 1

\* number of trailing zero bits of a # 0
RECURSIVE TrailingZerosLimb(_)
TrailingZerosLimb(x) == IF x % 2 = 1 THEN 0 ELSE 1 + TrailingZerosLimb(x \div 2)

RECURSIVE TrailingZeros(_)
TrailingZeros(a) == IF a[1] = 0 THEN 15 + TrailingZeros(Tail(a))
                    ELSE TrailingZerosLimb(a[1])

FloatZero == [neg |-> FALSE, m |-> <<>>, e |-> 0]

\* the canonical representation of (-1)^neg * m * 2^e, m # 0 with z trailing zeros
Strip(neg, m, e, z) == [neg |-> neg, m |-> ShiftRight(m, z), e |-> e + z]

\* the canonical representation of (-1)^neg * m * 2^e
Canonical(neg, m, e) == IF m = <<>> THEN FloatZero
                        ELSE Strip(neg, m, e, TrailingZeros(m))

\* q = floor(m / 2^k) moved to the nearest, ties to even; c compares the bits
\* cut off with half a unit of q
RoundUp(q, c) == IF c = 1 \/ (c = 0 /\ IsOdd(q)) THEN BigAdd(q, <<1>>) ELSE q

Nearest(m, k, q) ==
    RoundUp(q, BigCmp(BigSub(m, ShiftLeft(q, k)), ShiftLeft(<<1>>, k - 1)))

\* m cut by k bits (k > 0) to the nearest
Cut(neg, m, e, k) == Canonical(neg, IF k > 0 THEN Nearest(m, k, ShiftRight(m, k)) ELSE m,
                               IF k > 0 THEN e + k ELSE e)

\* rounding of the exact value (-1)^neg * m * 2^e to the nearest float, ties to even
Round(neg, m, e) == Cut(neg, m, e, BitLen(m) - MantissaBits)

\* float(text) of a decimal integer literal, and of an int
FloatOfNat(n) == Round(FALSE, BigOfNat(n), 0)

\* x * y, for y with a one-limb mantissa (1e6 = 15625 * 2^6, 1e3 = 125 * 2^3)
FMul(x, y) == IF x.m = <<>> \/ y.m = <<>> THEN FloatZero
              ELSE Round(x.neg # y.neg, MulSmall(x.m, y.m[1]), x.e + y.e)

\* the quotient and remainder qr of x.m * 2^s by y.m, with a sticky bit for a
\* non-zero remainder, rounded
Quotient(x, y, s, qr) ==
    Round(x.neg # y.neg, BigAdd(ShiftLeft(qr.q, 1), IF qr.r = 0 THEN <<>> ELSE <<1>>),
          x.e - y.e - s - 1)

Scaled(x, y, s) == Quotient(x, y, s, DivSmall(ShiftLeft(x.m, s), y.m[1]))

\* x / y, for y # 0 with a one-limb mantissa: the quotient is taken to at least
\* MantissaBits + 2 bits
FDiv(x, y) ==
    IF x.m = <<>> THEN FloatZero
    ELSE Scaled(x, y, IF MantissaBits + 2 + BitLenLimb(y.m[1]) > BitLen(x.m)
                      THEN MantissaBits + 2 + BitLenLimb(y.m[1]) - BitLen(x.m)
                      ELSE 0)

\* the sum of the signed magnitudes mx and my on the common exponent e
Sum(xneg, mx, yneg, my, e) ==
    Round(IF xneg = yneg \/ BigCmp(mx, my) >= 0 THEN xneg ELSE yneg,
          IF xneg = yneg THEN BigAdd(mx, my)
          ELSE IF BigCmp(mx, my) >= 0 THEN BigSub(mx, my)
          ELSE BigSub(my, mx),
          e)

Aligned(x, y, e) == Sum(x.neg, ShiftLeft(x.m, x.e - e), y.neg, ShiftLeft(y.m, y.e - e), e)

\* x + y
FAdd(x, y) == IF x.m = <<>> THEN y
              ELSE IF y.m = <<>> THEN x
              ELSE Aligned(x, y, IF x.e < y.e THEN x.e ELSE y.e)

FNeg(x) == IF x.m = <<>> THEN x ELSE [x EXCEPT !.neg = ~x.neg]

\* x - y
FSub(x, y) == FAdd(x, FNeg(y))

(***************************************************************************)
(* Python values.  None is the empty tuple and a set attribute is a        *)
(* one-element tuple, so that None compares with every value.  A dict is   *)
(* a function whose DOMAIN is its key set ('k' in d is "k" \in DOMAIN d).  *)
(***************************************************************************)
None == <<>>

Some(v) == <<v>>

\* Decimal integer texts of the documents and the number each denotes.
DecimalValue(text) ==
    CASE text = "3"         -> 3
      [] text = "3.0"       -> 3
      [] text = "5.0"       -> 5
      [] text = "128025000" -> 128025000
      [] text = "128075000" -> 128075000
      [] text = "191325000" -> 191325000
      [] text = "191375000" -> 191375000
      [] text = "191425000" -> 191425000
      [] text = "196125000" -> 196125000

DecimalTexts == {"3", "3.0", "5.0", "128025000", "128075000", "191325000",
                 "191375000", "191425000", "196125000"}

\* float(text): the double nearest to the number the text denotes
FloatValueOf == [text \in DecimalTexts |-> FloatOfNat(DecimalValue(text))]

Float(text) == FloatValueOf[text]

\* The float a YAML scalar digits/10^k is loaded as (the nearest double);
\* scale is 10^k with k in {0, 3, 6}.
YamlFloat(digits, scale) == FDiv(FloatOfNat(digits), FloatOfNat(scale))

\* str comparison is by code point; the names used, in that order
\* (digits sort before upper-case letters).
NameOrder == <<"13.5", "14.0", "99.0", "C-band", "X-1">>

NameRank(n) == CHOOSE i \in 1..Len(NameOrder) : NameOrder[i] = n

StrGt(a, b) == NameRank(a) > NameRank(b)

StrLt(a, b) == NameRank(a) < NameRank(b)

(***************************************************************************)
(* Channel (src/src/channel.py)                                            *)
(***************************************************************************)
\* 1e6 = 15625 * 2^6
center_exp == [neg |-> FALSE, m |-> <<15625>>, e |-> 6]

\* 1e3 = 125 * 2^3
span_exp == [neg |-> FALSE, m |-> <<125>>, e |-> 3]

\* the int 2 as a float operand
Two == [neg |-> FALSE, m |-> <<1>>, e |-> 1]

\* __init__, lines 25-39: every attribute starts as None
NewChannel(origin) ==
    [origin           |-> origin,
     name             |-> None,
     port             |-> None,
     attenuation      |-> None,
     description      |-> None,
     frequency_span   |-> None,
     frequency_center |-> None,
     lower_frequency  |-> None,
     upper_frequency  |-> None]

\* lines 160-166: the window of center and span against one plan entry
TryWindow(self, name, lower_frequency, upper_frequency, mid, half) ==
    IF FSub(mid, half) = lower_frequency /\ FAdd(mid, half) = upper_frequency
    THEN <<TRUE, [self EXCEPT !.name = Some(name),
                              !.lower_frequency = Some(lower_frequency),
                              !.upper_frequency = Some(upper_frequency)]>>
    ELSE <<FALSE, self>>

\* lines 169-177: the entry of the channel's name gives the frequencies
ByName(self, lower_frequency, upper_frequency, frequency_span) ==
    <<TRUE, [self EXCEPT
               !.lower_frequency = Some(lower_frequency),
               !.upper_frequency = Some(upper_frequency),
               !.frequency_span = Some(FDiv(frequency_span, span_exp)),
               !.frequency_center =
                   Some(FDiv(FAdd(lower_frequency, FDiv(frequency_span, Two)),
                             center_exp))]>>

\* one pass of the loop of _find_channel: <<returned True, self>>
TryEntry(self, name, lower_frequency, upper_frequency) ==
    IF self.frequency_center # None /\ self.frequency_span # None
    THEN TryWindow(self, name, lower_frequency, upper_frequency,
                   FMul(self.frequency_center[1], center_exp),
                   FDiv(FMul(self.frequency_span[1], span_exp), Two))
    ELSE IF self.name # None /\ name = self.name[1]
    THEN ByName(self, lower_frequency, upper_frequency,
                FSub(upper_frequency, lower_frequency))
    ELSE <<FALSE, self>>

\* _find_channel from plan entry i on: <<found, self>>
RECURSIVE FindChannelFrom(_, _, _)
RECURSIVE NextEntry(_, _, _, _)
FindChannelFrom(self, plan, i) ==
    IF i > Len(plan) THEN <<FALSE, self>>
    ELSE NextEntry(self, plan, i,
                   TryEntry(self, plan[i].name, Float(plan[i].lower_frequency),
                            Float(plan[i].upper_frequency)))

NextEntry(self, plan, i, tried) ==
    IF tried[1] THEN tried ELSE FindChannelFrom(self, plan, i + 1)

FindChannel(self, plan) == FindChannelFrom(self, plan, 1)

\* The outcome of a constructor: the exception raised ("None" when it returns)
\* and the object as far as it was filled.
Outcome(exception, self) == [raised |-> exception, self |-> self]

\* lines 117-119 and 146-147: raise ValueError unless the channel was found
Found(found) == IF found[1] THEN Outcome("None", found[2])
                ELSE Outcome("ValueError", found[2])

Has(d, k) == k \in DOMAIN d

\* _init_from_yaml(channel, channel_plan): the two arguments are entry and plan
\* here and below, channel and channel_plan being attributes of the run
InitFromYaml(self, entry, plan) ==
    IF ~Has(entry, "leaf_port") \/ ~Has(entry, "attenuation")
       \/ ~Has(entry, "frequency_span") \/ ~Has(entry, "frequency_center")
    THEN Outcome("AssertionError", self)
    ELSE Found(FindChannel(
           [self EXCEPT
              !.origin = "yaml",
              !.port = Some(entry.leaf_port),
              !.attenuation = Some(entry.attenuation),
              !.frequency_span = Some(entry.frequency_span),
              !.frequency_center = Some(entry.frequency_center),
              !.description = IF Has(entry, "description")
                              THEN Some(entry.description) ELSE None],
           plan))

\* InitFromXml without the assert of lines 139-140
InitFromXmlPortsOnly(self, entry, plan) ==
    IF ~Has(entry, "channel") THEN Outcome("KeyError", self)
    ELSE IF /\ entry.channel # "C-band"
            /\ \/ ~Has(entry, "add")
               \/ ~Has(entry, "drop")
               \/ ~(Has(entry.add, "attenuation") /\ Has(entry.drop, "attenuation"))
               \/ ~(Has(entry.add, "port") /\ Has(entry.drop, "port"))
               \/ entry.add.port # entry.drop.port
    THEN Outcome("AssertionError",
                 [self EXCEPT !.origin = "xml", !.name = Some(entry.channel)])
    ELSE Found(FindChannel(
           IF entry.channel # "C-band"
           THEN [self EXCEPT
                   !.origin = "xml",
                   !.name = Some(entry.channel),
                   !.port = Some(entry.add.port),
                   !.attenuation = Some(Float(entry.add.attenuation)),
                   !.description = IF Has(entry, "description")
                                   THEN Some(entry.description) ELSE None]
           ELSE [self EXCEPT !.origin = "xml", !.name = Some(entry.channel)],
           plan))

InitFromXml(self, entry, plan) ==
    IF ~Has(entry, "channel") THEN Outcome("KeyError", self)
    ELSE IF /\ entry.channel # "C-band"
            /\ \/ ~Has(entry, "add")
               \/ ~Has(entry, "drop")
               \/ ~(Has(entry.add, "attenuation") /\ Has(entry.drop, "attenuation"))
               \/ ~(Has(entry.add, "port") /\ Has(entry.drop, "port"))
               \/ entry.add.port # entry.drop.port
               \/ entry.add.attenuation # entry.drop.attenuation
    THEN Outcome("AssertionError",
                 [self EXCEPT !.origin = "xml", !.name = Some(entry.channel)])
    ELSE Found(FindChannel(
           IF entry.channel # "C-band"
           THEN [self EXCEPT
                   !.origin = "xml",
                   !.name = Some(entry.channel),
                   !.port = Some(entry.add.port),
                   !.attenuation = Some(Float(entry.add.attenuation)),
                   !.description = IF Has(entry, "description")
                                   THEN Some(entry.description) ELSE None]
           ELSE [self EXCEPT !.origin = "xml", !.name = Some(entry.channel)],
           plan))

\* Channel(channel, channel_plan, origin)
Channel(entry, plan, origin) ==
    IF origin = "yaml" THEN InitFromYaml(NewChannel(origin), entry, plan)
    ELSE InitFromXml(NewChannel(origin), entry, plan)

\* Eq that compares the description as well
EqWithDescription(self, other) ==
    IF self.name = Some("C-band") THEN self.name = other.name
    ELSE /\ self.name = other.name
         /\ self.port = other.port
         /\ self.attenuation = other.attenuation
         /\ self.description = other.description
         /\ self.lower_frequency = other.lower_frequency
         /\ self.upper_frequency = other.upper_frequency

\* Eq without the branch for "C-band"
EqNoSentinel(self, other) ==
    /\ self.name = other.name
    /\ self.port = other.port
    /\ self.attenuation = other.attenuation
    /\ self.lower_frequency = other.lower_frequency
    /\ self.upper_frequency = other.upper_frequency

\* __eq__
Eq(self, other) ==
    IF self.name = Some("C-band") THEN self.name = other.name
    ELSE /\ self.name = other.name
         /\ self.port = other.port
         /\ self.attenuation = other.attenuation
         /\ self.lower_frequency = other.lower_frequency
         /\ self.upper_frequency = other.upper_frequency

\* __gt__
Gt(self, other) == StrGt(self.name[1], other.name[1])

\* x < y between channels: Channel defines no __lt__, so the reflected
\* y.__gt__(x) decides
ChannelLt(x, y) == Gt(y, x)


(***************************************************************************)
(* CzechLightROADMConfig (src/src/config.py)                               *)
(***************************************************************************)
RECURSIVE InsertChannel(_, _)
InsertChannel(sorted, x) ==
    IF sorted = <<>> THEN <<x>>
    ELSE IF ChannelLt(x, sorted[1]) THEN <<x>> \o sorted
    ELSE <<sorted[1]>> \o InsertChannel(Tail(sorted), x)

\* SortChannels that leaves the list as it is
KeepOrder(channels) == channels

\* list.sort() of channels: stable, ascending by the channels' own order
RECURSIVE SortChannels(_)
SortChannels(channels) ==
    IF channels = <<>> THEN <<>>
    ELSE InsertChannel(SortChannels(SubSeq(channels, 1, Len(channels) - 1)),
                       channels[Len(channels)])

RECURSIVE InsertChanged(_, _)
InsertChanged(sorted, x) ==
    IF sorted = <<>> THEN <<x>>
    ELSE IF StrLt(x.current.name[1], sorted[1].current.name[1]) THEN <<x>> \o sorted
    ELSE <<sorted[1]>> \o InsertChanged(Tail(sorted), x)

\* list.sort(key=lambda x: x['current'].name)
RECURSIVE SortChanged(_)
SortChanged(changed) ==
    IF changed = <<>> THEN <<>>
    ELSE InsertChanged(SortChanged(SubSeq(changed, 1, Len(changed) - 1)),
                       changed[Len(changed)])

\* index of the first channel from j on that carries the name, 0 when the
\* inner loop runs to its else branch
RECURSIVE FirstSameName(_, _, _)
FirstSameName(name, channels, j) ==
    IF j > Len(channels) THEN 0
    ELSE IF channels[j].name = name THEN j
    ELSE FirstSameName(name, channels, j + 1)

\* CompareCurrent that takes == for != on line 76
RECURSIVE CompareCurrentEqual(_, _, _)
CompareCurrentEqual(current, proposed, i) ==
    IF i > Len(current) THEN [removed |-> <<>>, changed |-> <<>>]
    ELSE
      LET rest == CompareCurrentEqual(current, proposed, i + 1)
          j    == FirstSameName(current[i].name, proposed, 1)
      IN  IF j = 0
          THEN [rest EXCEPT !.removed = <<current[i]>> \o rest.removed]
          ELSE IF Eq(current[i], proposed[j])
          THEN [rest EXCEPT !.changed =
                   <<[proposed |-> proposed[j], current |-> current[i]]>> \o rest.changed]
          ELSE rest

\* the loop over current_channels from i on: removed and changed, in loop order
RECURSIVE CompareCurrent(_, _, _)
CompareCurrent(current, proposed, i) ==
    IF i > Len(current) THEN [removed |-> <<>>, changed |-> <<>>]
    ELSE
      LET rest == CompareCurrent(current, proposed, i + 1)
          j    == FirstSameName(current[i].name, proposed, 1)
      IN  IF j = 0
          THEN [rest EXCEPT !.removed = <<current[i]>> \o rest.removed]
          ELSE IF ~Eq(current[i], proposed[j])
          THEN [rest EXCEPT !.changed =
                   <<[proposed |-> proposed[j], current |-> current[i]]>> \o rest.changed]
          ELSE rest

\* CompareProposed whose inner loop looks at the first current channel only
RECURSIVE CompareProposedFirst(_, _, _)
CompareProposedFirst(current, proposed, i) ==
    IF i > Len(proposed) THEN <<>>
    ELSE IF current = <<>> \/ current[1].name # proposed[i].name
    THEN <<proposed[i]>> \o CompareProposedFirst(current, proposed, i + 1)
    ELSE CompareProposedFirst(current, proposed, i + 1)

\* the loop over proposed_channels from i on: added, in loop order
RECURSIVE CompareProposed(_, _, _)
CompareProposed(current, proposed, i) ==
    IF i > Len(proposed) THEN <<>>
    ELSE IF FirstSameName(proposed[i].name, current, 1) = 0
    THEN <<proposed[i]>> \o CompareProposed(current, proposed, i + 1)
    ELSE CompareProposed(current, proposed, i + 1)

\* CalculateStatistics that merges as current channels + added channels
CalculateStatisticsCurrentFirst(current, proposed) ==
    LET compared == CompareCurrent(current, proposed, 1)
        added    == CompareProposed(current, proposed, 1)
        merged   == current \o added
    IN  [added   |-> SortChannels(added),
         removed |-> SortChannels(compared.removed),
         changed |-> SortChanged(compared.changed),
         merged  |-> SortChannels(merged)]

\* _calculate_statistics: the tuple it returns
CalculateStatistics(current, proposed) ==
    LET compared == CompareCurrent(current, proposed, 1)
        added    == CompareProposed(current, proposed, 1)
        merged   == proposed \o compared.removed
    IN  [added   |-> SortChannels(added),
         removed |-> SortChannels(compared.removed),
         changed |-> SortChanged(compared.changed),
         merged  |-> SortChannels(merged)]

(***************************************************************************)
(* Input documents                                                         *)
(***************************************************************************)
\* channel plans as downloaded: entries in declared order
GridPlan ==
    << [name |-> "13.5",   lower_frequency |-> "191325000", upper_frequency |-> "191375000"],
       [name |-> "14.0",   lower_frequency |-> "191375000", upper_frequency |-> "191425000"],
       [name |-> "C-band", lower_frequency |-> "191325000", upper_frequency |-> "196125000"],
       [name |-> "X-1",    lower_frequency |-> "128025000", upper_frequency |-> "128075000"] >>

ChannelPlans == {GridPlan}

Block(port, attenuation) == [port |-> port, attenuation |-> attenuation]

Media(name, block) == [channel |-> name, add |-> block, drop |-> block]

\* media-channels entries of the device state
XmlDescriptors ==
    { [channel |-> "C-band"],
      [channel |-> "C-band", add |-> Block("E1", "3.0"), drop |-> Block("E2", "5.0")],
      Media("13.5", Block("E1", "3.0")),
      [channel |-> "13.5", add |-> Block("E1", "3.0"), drop |-> Block("E1", "3.0"),
       description |-> "west"],
      Media("14.0", Block("E1", "3.0")),
      Media("X-1", Block("E1", "3.0")),
      Media("99.0", Block("E1", "3.0")),
      [add |-> Block("E1", "3.0"), drop |-> Block("E1", "3.0")],
      [channel |-> "13.5", drop |-> Block("E1", "3.0")],
      [channel |-> "13.5", add |-> Block("E1", "3.0")],
      [channel |-> "13.5", add |-> [port |-> "E1"], drop |-> Block("E1", "3.0")],
      [channel |-> "13.5", add |-> Block("E1", "3.0"), drop |-> [port |-> "E1"]],
      [channel |-> "13.5", add |-> [attenuation |-> "3.0"], drop |-> Block("E1", "3.0")],
      [channel |-> "13.5", add |-> Block("E1", "3.0"), drop |-> [attenuation |-> "3.0"]],
      [channel |-> "13.5", add |-> Block("E1", "3.0"), drop |-> Block("E2", "3.0")],
      [channel |-> "13.5", add |-> Block("E1", "3.0"), drop |-> Block("E1", "5.0")],
      [channel |-> "13.5", add |-> Block("E1", "3.0"), drop |-> Block("E1", "3")] }

Intent(port, attenuation, span, center) ==
    [leaf_port        |-> port,
     attenuation      |-> YamlFloat(attenuation, 1),
     frequency_span   |-> YamlFloat(span, 1),
     frequency_center |-> YamlFloat(center, 1000000)]

\* entries of the proposed configuration; centers are written in THz to six
\* decimals (191.35 is digits 191350000 over 10^6)
YamlDescriptors ==
    { Intent("E1", 3, 50, 191350000),
      Intent("E2", 3, 50, 191350000),
      Intent("E1", 5, 50, 191350000),
      Intent("E1", 3, 50, 191350000) @@ [description |-> "east"],
      Intent("E1", 3, 50, 191400000),
      Intent("E1", 3, 4800, 193725000),
      Intent("E1", 3, 50, 128050000),
      Intent("E1", 3, 50, 191360000),
      [attenuation |-> YamlFloat(3, 1), frequency_span |-> YamlFloat(50, 1),
       frequency_center |-> YamlFloat(191350000, 1000000)],
      [leaf_port |-> "E1", frequency_span |-> YamlFloat(50, 1),
       frequency_center |-> YamlFloat(191350000, 1000000)],
      [leaf_port |-> "E1", attenuation |-> YamlFloat(3, 1),
       frequency_center |-> YamlFloat(191350000, 1000000)],
      [leaf_port |-> "E1", attenuation |-> YamlFloat(3, 1),
       frequency_span |-> YamlFloat(50, 1)] }

\* line 47: Channel(channel, self.channel_plan, 'xml') of each plan and entry
XmlChannels ==
    {<<plan, d, Channel(d, plan, "xml")>> : plan \in ChannelPlans, d \in XmlDescriptors}

\* line 52: Channel(channel, self.channel_plan, 'yaml') of each plan and entry
YamlChannels ==
    {<<plan, d, Channel(d, plan, "yaml")>> : plan \in ChannelPlans, d \in YamlDescriptors}

\* the outcome of the constructor call for entry d under plan
ChannelOf(channels, plan, d) == (CHOOSE o \in channels : o[1] = plan /\ o[2] = d)[3]

\* the two documents together hold at most this many entries
MaxChannels == 4

(***************************************************************************)
(* State of one run of CzechLightROADMConfig.__init__                      *)
(***************************************************************************)
VARIABLES
    channel_plan,       \* self.channel_plan
    mode,               \* self.mode
    pc,                 \* "current" (loop of line 47), "proposed" (loop of line 52),
                        \* "done" (constructed), "error" (an exception left __init__)
    raised,             \* the exception that left __init__, "None" so far
    channel,            \* the loop variable: the entry read last, None before
    current_channels,   \* self.current_channels
    proposed_channels,  \* self.proposed_channels
    statistics,         \* the tuple _calculate_statistics returned, None before
    removed_channels,   \* self.removed_channels, None until assigned
    final_channels,     \* self.final_channels, None until assigned
    applied             \* current_channels is the merged list of a previous run

vars == <<channel_plan, mode, pc, raised, channel, current_channels, proposed_channels,
          statistics, removed_channels, final_channels, applied>>

(***************************************************************************)
(* State of one run of main (src/main.py)                                  *)
(***************************************************************************)
VARIABLES
    devices,            \* the list loaded from config/devices.yaml
    device,             \* the loop variable of line 28, as an index into devices
    at,                 \* the statement main is at: "get_config" (line 38),
                        \* "construct" (46), "create_summary" (54), "input" (56),
                        \* "create_config" (63), "set_config" (69), "end" (the loop
                        \* is over), "raised" (an exception left main), "idle"
    log                 \* the calls that returned so far, in order

main_vars == <<devices, device, at, log>>

\* main is not running
MainIdle ==
    /\ devices = <<>>
    /\ device = 0
    /\ at = "idle"
    /\ log = <<>>

\* CzechLightROADMConfig.__init__ up to line 45
ConfigInit ==
    /\ channel_plan \in ChannelPlans
    /\ mode \in {"merge", "replace"}
    /\ pc = "current"
    /\ raised = "None"
    /\ channel = None
    /\ current_channels = <<>>
    /\ proposed_channels = <<>>
    /\ statistics = None
    /\ removed_channels = None
    /\ final_channels = None
    /\ applied = FALSE

Init == ConfigInit /\ MainIdle

\* one pass of the loop of lines 47-48 over the entry d
LoadCurrent(d) ==
    /\ pc = "current"
    /\ channel' = Some(d)
    /\ \E c \in {ChannelOf(XmlChannels, channel_plan, d)} :
          IF c.raised = "None"
          THEN /\ current_channels' = Append(current_channels, c.self)
               /\ UNCHANGED <<pc, raised>>
          ELSE /\ pc' = "error"
               /\ raised' = c.raised
               /\ UNCHANGED current_channels
    /\ UNCHANGED <<channel_plan, mode, proposed_channels, statistics, removed_channels,
                   final_channels, applied>>

\* the loop of lines 47-48 is exhausted
EndCurrent ==
    /\ pc = "current"
    /\ pc' = "proposed"
    /\ UNCHANGED <<channel_plan, mode, raised, channel, current_channels,
                   proposed_channels, statistics, removed_channels, final_channels,
                   applied>>

\* LoadProposed that passes over an entry whose construction fails
LoadProposedSkipping(d) ==
    /\ pc = "proposed"
    /\ channel' = Some(d)
    /\ \E c \in {ChannelOf(YamlChannels, channel_plan, d)} :
          IF c.raised = "None"
          THEN proposed_channels' = Append(proposed_channels, c.self)
          ELSE UNCHANGED proposed_channels
    /\ UNCHANGED <<channel_plan, mode, pc, raised, current_channels, statistics,
                   removed_channels, final_channels, applied>>

\* one pass of the loop of lines 52-53 over the entry d
LoadProposed(d) ==
    /\ pc = "proposed"
    /\ channel' = Some(d)
    /\ \E c \in {ChannelOf(YamlChannels, channel_plan, d)} :
          IF c.raised = "None"
          THEN /\ proposed_channels' = Append(proposed_channels, c.self)
               /\ UNCHANGED <<pc, raised>>
          ELSE /\ pc' = "error"
               /\ raised' = c.raised
               /\ UNCHANGED proposed_channels
    /\ UNCHANGED <<channel_plan, mode, current_channels, statistics, removed_channels,
                   final_channels, applied>>

\* Select that takes the merged list in either mode
SelectMerged(current, proposed) ==
    \E s \in {CalculateStatistics(current, proposed)} :
       /\ statistics' = Some(s)
       /\ final_channels' = Some(s.merged)
       /\ removed_channels' = Some(IF mode = "merge" THEN <<>> ELSE s.removed)

\* lines 56-63 on the lists current and proposed
Select(current, proposed) ==
    \E s \in {CalculateStatistics(current, proposed)} :
       /\ statistics' = Some(s)
       /\ IF mode = "merge"
          THEN /\ final_channels' = Some(s.merged)
               /\ removed_channels' = Some(<<>>)
          ELSE /\ final_channels' = Some(proposed)
               /\ removed_channels' = Some(s.removed)

\* the loop of lines 52-53 is exhausted; lines 55-63
Reconcile ==
    /\ pc = "proposed"
    /\ pc' = "done"
    /\ Select(current_channels, proposed_channels)
    /\ UNCHANGED <<channel_plan, mode, raised, channel, current_channels,
                   proposed_channels, applied>>

\* a further run with the same plan, mode and proposed configuration, whose
\* current channels are the merged list of the run before
Reapply ==
    /\ pc = "done"
    /\ current_channels' = statistics[1].merged
    /\ applied' = TRUE
    /\ Select(statistics[1].merged, proposed_channels)
    /\ UNCHANGED <<channel_plan, mode, pc, raised, channel, proposed_channels>>

Entries == Len(current_channels) + Len(proposed_channels)

Next ==
    \/ \E d \in XmlDescriptors :
          Entries < MaxChannels /\ LoadCurrent(d) /\ UNCHANGED main_vars
    \/ EndCurrent /\ UNCHANGED main_vars
    \/ \E d \in YamlDescriptors :
          Entries < MaxChannels /\ LoadProposed(d) /\ UNCHANGED main_vars
    \/ Reconcile /\ UNCHANGED main_vars
    \/ Reapply /\ UNCHANGED main_vars

Spec == Init /\ [][Next]_vars

(***************************************************************************)
(* main (src/main.py): the loop over the devices                           *)
(***************************************************************************)
\* the list has at most this many devices
MaxDevices == 2

\* entries of config/devices.yaml, as far as main reads them
Devices == [mode : {"merge", "replace"}, validate : BOOLEAN]

RECURSIVE ListsOf(_, _)
ListsOf(S, n) ==
    IF n = 0 THEN {<<>>}
    ELSE ListsOf(S, n - 1) \cup {Append(l, e) : l \in ListsOf(S, n - 1), e \in S}

\* return codes of ansible-playbook
ReturnCodes == {0, 2, 4}

\* what the operator may type at the prompt of line 56
Answers == {"y", "Y", "n", "N", "yes", ""}

\* str.lower() on the answers
Lower(text) ==
    CASE text = "y"   -> "y"
      [] text = "Y"   -> "y"
      [] text = "n"   -> "n"
      [] text = "N"   -> "n"
      [] text = "yes" -> "yes"
      [] text = ""    -> ""

\* exceptions that leave CzechLightROADMConfig.__init__
Exceptions == {"FileNotFoundError", "KeyError", "AssertionError", "ValueError"}

\* a call of the device at hand that returned, with what it returned
Call(name, value) == [device |-> device, step |-> name, result |-> value]

\* the next pass of the loop of line 28, or its end
Continue ==
    /\ device' = device + 1
    /\ at' = IF device + 1 > Len(devices) THEN "end" ELSE "get_config"

MainInit ==
    /\ ConfigInit
    /\ devices \in ListsOf(Devices, MaxDevices)
    /\ device = 1
    /\ at = IF devices = <<>> THEN "end" ELSE "get_config"
    /\ log = <<>>

\* GetConfig that goes on whatever the playbook returned
GetConfigUnchecked ==
    /\ at = "get_config"
    /\ \E returncode \in ReturnCodes :
          /\ log' = Append(log, Call("get_config", returncode))
          /\ at' = "construct"
          /\ UNCHANGED device
    /\ UNCHANGED <<devices, vars>>

\* lines 38-44
GetConfig ==
    /\ at = "get_config"
    /\ \E returncode \in ReturnCodes :
          /\ log' = Append(log, Call("get_config", returncode))
          /\ IF returncode # 0 THEN Continue
             ELSE at' = "construct" /\ UNCHANGED device
    /\ UNCHANGED <<devices, vars>>

\* lines 46-51: the constructor returns, or its exception leaves main
Construct ==
    /\ at = "construct"
    /\ mode' = devices[device].mode
    /\ \E exception \in Exceptions \cup {"None"} :
          IF exception = "None"
          THEN /\ log' = Append(log, Call("construct", exception))
               /\ at' = IF devices[device].validate THEN "create_summary"
                        ELSE "create_config"
          ELSE /\ at' = "raised"
               /\ UNCHANGED log
    /\ UNCHANGED <<devices, device, channel_plan, pc, raised, channel, current_channels,
                   proposed_channels, statistics, removed_channels, final_channels,
                   applied>>

\* line 54
CreateSummary ==
    /\ at = "create_summary"
    /\ log' = Append(log, Call("create_summary", "None"))
    /\ at' = "input"
    /\ UNCHANGED <<devices, device, vars>>

\* lines 56-59
Input ==
    /\ at = "input"
    /\ \E text \in Answers :
          /\ log' = Append(log, Call("input", text))
          /\ IF Lower(text) # "y" THEN Continue
             ELSE at' = "create_config" /\ UNCHANGED device
    /\ UNCHANGED <<devices, vars>>

\* line 63
CreateConfig ==
    /\ at = "create_config"
    /\ log' = Append(log, Call("create_config", "None"))
    /\ at' = "set_config"
    /\ UNCHANGED <<devices, device, vars>>

\* lines 69-74: the return code is not looked at
SetConfig ==
    /\ at = "set_config"
    /\ \E returncode \in ReturnCodes :
          log' = Append(log, Call("set_config", returncode))
    /\ Continue
    /\ UNCHANGED <<devices, vars>>

MainNext ==
    \/ GetConfig
    \/ Construct
    \/ CreateSummary
    \/ Input
    \/ CreateConfig
    \/ SetConfig

MainSpec == MainInit /\ [][MainNext]_<<vars, main_vars>>

(***************************************************************************)
(* Properties                                                              *)
(***************************************************************************)
Range(seq) == {seq[i] : i \in DOMAIN seq}

NamesOf(channels) == {channels[i].name : i \in DOMAIN channels}

UniqueNames(channels) ==
    \A i, j \in DOMAIN channels : channels[i].name = channels[j].name => i = j

\* the channels of a list whose name no channel of the other list carries
Without(channels, others) == {c \in Range(channels) : c.name \notin NamesOf(others)}

Ascending(channels) ==
    \A i, j \in DOMAIN channels :
       i < j => ~StrGt(channels[i].name[1], channels[j].name[1])

Done == pc = "done"

added_channels == statistics[1].added

changed_channels == statistics[1].changed

merged_channels == statistics[1].merged

\* C1 as stated: reconciling the proposed collection against the merged list of
\* a run before leaves added, removed and changed all empty.
C1_NothingLeft ==
    (Done /\ applied /\ UniqueNames(current_channels) /\ UniqueNames(proposed_channels))
    => /\ added_channels = <<>>
       /\ statistics[1].removed = <<>>
       /\ changed_channels = <<>>

\* C1 (amended): reconciling the proposed collection against the merged list of a
\* run before, both duplicate-free, classifies nothing as added or changed and
\* merges to that same list again; removed holds exactly the channels that were
\* carried forward (those whose name is not proposed), and only the removed list
\* reported in merge mode is empty.
C1_MergeConvergence ==
    (Done /\ applied /\ UniqueNames(current_channels) /\ UniqueNames(proposed_channels))
    => /\ added_channels = <<>>
       /\ changed_channels = <<>>
       /\ merged_channels = current_channels
       /\ Range(statistics[1].removed) = Without(current_channels, proposed_channels)
       /\ mode = "merge" => /\ removed_channels = Some(<<>>)
                            /\ final_channels = Some(current_channels)

C1_Witness ==
    /\ Done /\ applied
    /\ UniqueNames(current_channels) /\ UniqueNames(proposed_channels)
    /\ proposed_channels # <<>>
    /\ statistics[1].removed # <<>>

\* the channel of a duplicate-free list that carries the name
Named(channels, name) == CHOOSE c \in Range(channels) : c.name = name

\* C2: with names unique within current and within proposed, added and removed
\* share no name, and every name of current or proposed is in exactly one of
\* added (only proposed), removed (only current), changed (in both, not equal)
\* and unchanged (in both, equal).
C2_Partition ==
    (Done /\ UniqueNames(current_channels) /\ UniqueNames(proposed_channels))
    => LET cur       == NamesOf(current_channels)
           prop      == NamesOf(proposed_channels)
           added     == NamesOf(added_channels)
           removed   == NamesOf(statistics[1].removed)
           changed   == {changed_channels[i].current.name : i \in DOMAIN changed_channels}
           unchanged == {n \in cur \cap prop :
                           Eq(Named(current_channels, n), Named(proposed_channels, n))}
       IN  /\ added \cap removed = {}
           /\ added = prop \ cur
           /\ removed = cur \ prop
           /\ changed = {n \in cur \cap prop :
                           ~Eq(Named(current_channels, n), Named(proposed_channels, n))}
           /\ \A n \in cur \cup prop :
                 Cardinality({k \in {added, removed, changed, unchanged} : n \in k}) = 1
           /\ Len(added_channels) = Cardinality(added)
           /\ Len(statistics[1].removed) = Cardinality(removed)
           /\ Len(changed_channels) = Cardinality(changed)
           /\ \A i \in DOMAIN changed_channels :
                 /\ changed_channels[i].current = Named(current_channels, changed_channels[i].current.name)
                 /\ changed_channels[i].proposed = Named(proposed_channels, changed_channels[i].current.name)

C2_Witness ==
    /\ Done /\ ~applied
    /\ UniqueNames(current_channels) /\ UniqueNames(proposed_channels)
    /\ added_channels # <<>>
    /\ statistics[1].removed # <<>>
    /\ changed_channels # <<>>

C4_Replace ==
    (Done /\ mode = "replace")
    => /\ final_channels = Some(proposed_channels)
       /\ NamesOf(final_channels[1]) \cap
             (NamesOf(current_channels) \ NamesOf(proposed_channels)) = {}
       /\ Range(removed_channels[1]) = Without(current_channels, proposed_channels)
       /\ Len(removed_channels[1]) =
             Cardinality({i \in DOMAIN current_channels :
                            current_channels[i].name \notin NamesOf(proposed_channels)})

C4_Witness ==
    /\ Done /\ ~applied /\ mode = "replace"
    /\ proposed_channels # <<>>
    /\ removed_channels[1] # <<>>
    /\ Len(current_channels) > Len(removed_channels[1])

\* every channel constructed so far
Constructed == Range(current_channels) \cup Range(proposed_channels)

\* C5: if either channel is named "C-band" the two are equal exactly when their
\* names are equal, whatever port and attenuation; otherwise exactly when name,
\* port, attenuation, lower and upper frequency are all equal.  Equality is
\* reflexive and symmetric.
C5_Equality ==
    \A a, b \in Constructed :
       /\ (a.name = Some("C-band") \/ b.name = Some("C-band"))
             => (Eq(a, b) <=> a.name = b.name)
       /\ (a.name # Some("C-band") /\ b.name # Some("C-band"))
             => (Eq(a, b) <=> /\ a.name = b.name
                              /\ a.port = b.port
                              /\ a.attenuation = b.attenuation
                              /\ a.lower_frequency = b.lower_frequency
                              /\ a.upper_frequency = b.upper_frequency)
       /\ Eq(a, a)
       /\ Eq(a, b) <=> Eq(b, a)

\* a "C-band" channel of the device and a proposed one with a port, compared by
\* the classification, beside a proposed channel of another name
C5_Witness ==
    /\ Done
    /\ \E a \in Range(current_channels), b, c \in Range(proposed_channels) :
          /\ a.name = Some("C-band") /\ b.name = Some("C-band")
          /\ a.port # b.port
          /\ c.name # Some("C-band")

\* the list in another order of its entries
Reordered(seq, f) == [i \in DOMAIN seq |-> seq[f[i]]]

IsXml(d) == DOMAIN d \subseteq {"channel", "add", "drop", "description"}

PlanNames(plan) == {plan[i].name : i \in DOMAIN plan}

\* the plan's names are unique and so are its frequency windows
WellFormed(plan) ==
    \A i, j \in DOMAIN plan :
       (\/ plan[i].name = plan[j].name
        \/ /\ Float(plan[i].lower_frequency) = Float(plan[j].lower_frequency)
           /\ Float(plan[i].upper_frequency) = Float(plan[j].upper_frequency))
       => i = j

\* the proposed entry that carries a channel's center and span
Inverse(c) ==
    [leaf_port        |-> "E1",
     attenuation      |-> YamlFloat(3, 1),
     frequency_span   |-> c.frequency_span[1],
     frequency_center |-> c.frequency_center[1]]

\* the device channel c resolved by name from plan entry e, and back
RoundTrip(c, e, back) ==
    /\ c.frequency_span =
          Some(FDiv(FSub(Float(e.upper_frequency), Float(e.lower_frequency)), span_exp))
    /\ c.frequency_center =
          Some(FDiv(FAdd(Float(e.lower_frequency),
                         FDiv(FMul(c.frequency_span[1], span_exp), Two)),
                    center_exp))
    /\ back.raised = "None"
    /\ back.self.name = Some(e.name)
    /\ back.self.lower_frequency = Some(Float(e.lower_frequency))
    /\ back.self.upper_frequency = Some(Float(e.upper_frequency))

\* C7: for every entry e of a plan with unique names and windows, the channel
\* resolved by name has span = (upper - lower)/C2 and center =
\* (lower + span*C2/2)/C1, and a proposed entry with that center and span
\* resolves by its window back to e's name, lower and upper frequency.
C7_RoundTrip ==
    WellFormed(channel_plan)
    => \A c \in Range(current_channels) :
          c.origin = "xml"
          => \A i \in DOMAIN channel_plan :
                channel_plan[i].name = c.name[1]
                => RoundTrip(c, channel_plan[i], Channel(Inverse(c), channel_plan, "yaml"))

\* the first plan entry a channel matches: by its name for one of the device,
\* by its window for a proposed one; 0 when there is none
FirstMatch(c, plan) ==
    LET hits == {i \in DOMAIN plan :
                   IF c.origin = "xml" THEN Some(plan[i].name) = c.name
                   ELSE /\ Some(Float(plan[i].lower_frequency)) = c.lower_frequency
                        /\ Some(Float(plan[i].upper_frequency)) = c.upper_frequency}
    IN  IF hits = {} THEN 0 ELSE CHOOSE i \in hits : \A j \in hits : i <= j

\* lower = center*C1 - span*C2/2 and upper = center*C1 + span*C2/2, with the
\* half width given
Window(c, half) ==
    /\ c.lower_frequency = Some(FSub(FMul(c.frequency_center[1], center_exp), half))
    /\ c.upper_frequency = Some(FAdd(FMul(c.frequency_center[1], center_exp), half))

Complete(c, plan, i) ==
    /\ c.name # None /\ c.lower_frequency # None /\ c.upper_frequency # None
    /\ c.frequency_center # None /\ c.frequency_span # None
    /\ i # 0
    /\ c.name = Some(plan[i].name)
    /\ c.lower_frequency = Some(Float(plan[i].lower_frequency))
    /\ c.upper_frequency = Some(Float(plan[i].upper_frequency))
    /\ Window(c, FDiv(FMul(c.frequency_span[1], span_exp), Two))

\* the entry d matches no plan entry: its name is unknown, or no entry has
\* exactly its window
Unmatched(d, plan) ==
    IF IsXml(d) THEN Has(d, "channel") /\ d.channel \notin PlanNames(plan)
    ELSE /\ Has(d, "frequency_center") /\ Has(d, "frequency_span")
         /\ \A i \in DOMAIN plan :
               ~Window([lower_frequency  |-> Some(Float(plan[i].lower_frequency)),
                        upper_frequency  |-> Some(Float(plan[i].upper_frequency)),
                        frequency_center |-> Some(d.frequency_center)],
                       FDiv(FMul(d.frequency_span, span_exp), Two))

\* C8: every channel constructed, from either origin, has name, lower, upper,
\* center and span set, (name, lower, upper) is the first matching plan entry
\* in declared order, lower = center*C1 - span*C2/2 and upper = center*C1 +
\* span*C2/2; an entry that matches no plan entry fails and gives no channel.
C8_Construction ==
    /\ \A c \in Constructed : Complete(c, channel_plan, FirstMatch(c, channel_plan))
    /\ (channel # None /\ ~applied)
          => (Unmatched(channel[1], channel_plan) => pc = "error")

\* the add and drop blocks of a device entry are not both there with the same
\* port and the same attenuation
Inconsistent(d) ==
    \/ ~Has(d, "add")
    \/ ~Has(d, "drop")
    \/ ~Has(d.add, "port")
    \/ ~Has(d.drop, "port")
    \/ ~Has(d.add, "attenuation")
    \/ ~Has(d.drop, "attenuation")
    \/ d.add.port # d.drop.port
    \/ d.add.attenuation # d.drop.attenuation

Last(seq) == seq[Len(seq)]

\* the outcome of the device entry d read last
Checked(d) ==
    /\ (d.channel # "C-band" /\ Inconsistent(d))
          => /\ pc = "error"
             /\ raised = "AssertionError"
    /\ (d.channel = "C-band" /\ d.channel \in PlanNames(channel_plan) /\ ~applied)
          => /\ pc # "error"
             /\ current_channels # <<>>
             /\ Last(current_channels).name = Some("C-band")
             /\ Last(current_channels).port = None
             /\ Last(current_channels).attenuation = None

\* C9: a device entry not named "C-band" fails to construct whenever its add or
\* drop block is missing, lacks port or attenuation, or the two differ in port
\* or attenuation; one named "C-band" (a plan name) is constructed whatever its
\* blocks, also with none at all.
C9_Consistency ==
    (channel # None /\ IsXml(channel[1]) /\ Has(channel[1], "channel"))
    => Checked(channel[1])

\* a device entry whose add and drop attenuation differ has failed
C9_Witness ==
    /\ pc = "error"
    /\ channel # None /\ IsXml(channel[1])
    /\ Has(channel[1], "add") /\ Has(channel[1], "drop")
    /\ Has(channel[1].add, "attenuation") /\ Has(channel[1].drop, "attenuation")
    /\ Has(channel[1].add, "port") /\ Has(channel[1].drop, "port")
    /\ channel[1].add.port = channel[1].drop.port
    /\ channel[1].add.attenuation # channel[1].drop.attenuation

\* the entry read last does not construct: it left __init__ with its exception
Aborted(c) == c.raised # "None" => (pc = "error" /\ raised = c.raised)

\* C10: when the construction of one channel of current or proposed fails, the
\* run ends with that error: nothing more is read and no statistics, removed or
\* final list exists, whatever entries were well-formed.
C10_NoPartial ==
    /\ pc = "error"
          => /\ raised # "None"
             /\ statistics = None
             /\ removed_channels = None
             /\ final_channels = None
             /\ ~ENABLED Next
    /\ pc # "error" => raised = "None"
    /\ (channel # None /\ pc # "done")
          => Aborted(Channel(channel[1], channel_plan,
                             IF IsXml(channel[1]) THEN "xml" ELSE "yaml"))

\* a proposed entry off the grid after well-formed entries on both sides
C10_Witness ==
    /\ pc = "error"
    /\ raised = "ValueError"
    /\ current_channels # <<>>
    /\ proposed_channels # <<>>

\* the call at position j of the log is the call name of device n
Is(j, n, name) == log[j].device = n /\ log[j].step = name

\* the answers given; main goes on with the device on those of the set yes only
Agreed(j, n, yes) == Is(j, n, "input") /\ log[j].result \in yes

\* before the upload at position k device n was downloaded with code 0, then
\* reconciled and, after the operator agreed where it is validated, rendered
Prepared(k, n, yes) ==
    \E g, c, r \in 1..(k - 1) :
       /\ g < c /\ c < r
       /\ Is(g, n, "get_config") /\ log[g].result = 0
       /\ Is(c, n, "construct")
       /\ Is(r, n, "create_config")
       /\ devices[n].validate
             => \E w, q \in (c + 1)..(r - 1) :
                   w < q /\ Is(w, n, "create_summary") /\ Agreed(q, n, yes)

\* the call at position k is a failed download or an answer outside yes
Refused(k, yes) ==
    \/ log[k].step = "get_config" /\ log[k].result # 0
    \/ log[k].step = "input" /\ log[k].result \notin yes

\* nothing is rendered or uploaded for device n, and the call at position k
\* is its last: main goes on with device n + 1
Skipped(k, n) ==
    /\ \A j \in DOMAIN log : ~Is(j, n, "create_config") /\ ~Is(j, n, "set_config")
    /\ IF k < Len(log) THEN Is(k + 1, n + 1, "get_config")
       ELSE /\ device = n + 1
            /\ at = IF n + 1 > Len(devices) THEN "end" ELSE "get_config"

Workflow(yes) ==
    \A k \in DOMAIN log :
       /\ log[k].step = "set_config" => Prepared(k, log[k].device, yes)
       /\ Refused(k, yes) => Skipped(k, log[k].device)

\* C11 as stated: for every device set_config runs only after get_config
\* returned 0, after the reconciliation and the rendering of the config, and
\* for a validated device after the summary and the answer 'y'; after a failed
\* download or any other answer nothing is rendered or uploaded for the device
\* and main goes on with the next one.
C11_AnswerY == Workflow({"y"})

\* C11: the same ordering, with the answers that read 'y' once lower-cased
\* ('y' and 'Y') as the ones main goes on with.
C11_Workflow == Workflow({text \in Answers : Lower(text) = "y"})

\* the first device failed to download and the second, validated, was uploaded
C11_Witness ==
    /\ at = "end"
    /\ Len(devices) = 2
    /\ devices[2].validate
    /\ log # <<>>
    /\ Is(1, 1, "get_config") /\ log[1].result # 0
    /\ Is(Len(log), 2, "set_config")

\* the channel c of the device and the proposed channel p carry the same name,
\* port, attenuation and frequency window, and not the same description
Redescribed(c, p) ==
    /\ c.name = p.name
    /\ c.port = p.port
    /\ c.attenuation = p.attenuation
    /\ c.lower_frequency = p.lower_frequency
    /\ c.upper_frequency = p.upper_frequency
    /\ c.description # p.description

\* the names the three reported categories mention
Reported ==
    NamesOf(added_channels) \cup NamesOf(statistics[1].removed)
    \cup NamesOf(removed_channels[1])
    \cup {changed_channels[i].current.name : i \in DOMAIN changed_channels}
    \cup {changed_channels[i].proposed.name : i \in DOMAIN changed_channels}

\* no category mentions p's name, and the final list has p and not c
Unreported(c, p) ==
    /\ p.name \notin Reported
    /\ p \in Range(final_channels[1])
    /\ c \notin Range(final_channels[1])

\* C12 as stated, for any two lists: a channel in current and in proposed under
\* one name with equal port, attenuation and window and another description is
\* in none of added, removed and changed, and the final list of either mode
\* carries the proposed channel with its description.
C12_AnyLists ==
    Done => \A c \in Range(current_channels), p \in Range(proposed_channels) :
               Redescribed(c, p) => Unreported(c, p)

\* C12 for lists whose names are unique: a channel in current and in proposed
\* under one name with equal port, attenuation and window and another
\* description is in none of added, removed and changed, and the final list of
\* either mode carries the proposed channel, not the one of the device.
C12_Description ==
    (Done /\ UniqueNames(current_channels) /\ UniqueNames(proposed_channels))
    => \A c \in Range(current_channels), p \in Range(proposed_channels) :
          Redescribed(c, p) => Unreported(c, p)

\* a run that reports nothing at all and whose final list is not the device's
C12_Witness ==
    /\ Done /\ ~applied
    /\ UniqueNames(current_channels) /\ UniqueNames(proposed_channels)
    /\ \E c \in Range(current_channels), p \in Range(proposed_channels) :
          Redescribed(c, p)
    /\ Reported = {}
    /\ final_channels # Some(current_channels)

====
